---- MODULE Spec2Model ----
(***************************************************************************)
(* A model of dircomp.py: the comparison engine (FileInfo,                *)
(* ComparisonResult, DirectoryComparer) and the interactive controller    *)
(* (CursesUI) with its background copy threads.                           *)
(*                                                                         *)
(* Relative paths are the integers 1..NPaths (their order stands for the  *)
(* lexicographic order sorted() uses).  File contents are byte sequences. *)
(* Modification times are whole seconds.  A content digest is modelled as *)
(* the tagged content (no collisions), the empty string of a failed read  *)
(* as the empty sequence.                                                  *)
(***************************************************************************)
EXTENDS Integers, Sequences, FiniteSets, TLC

VARIABLES
    disk,            \* the two directory trees: disk[side][path]
    results,         \* DirectoryComparer.results
    selected_index,  \* DirectoryComparer.selected_index
    scroll_offset,   \* CursesUI.scroll_offset
    height,          \* CursesUI.height
    list_height,     \* CursesUI.list_height
    status_message,  \* CursesUI.status_message
    copying,         \* CursesUI.copying
    workers,         \* the copy_thread threads started and not yet finished
    pc,              \* where the main thread is in CursesUI.run
    op,              \* the operation under way and its local variables: the command
                     \* whose external process the main thread waits for, or a scan
    fsBudget,        \* file changes external processes and failing copies may still make
    keys,            \* keys read so far
    event,           \* the step the main thread took last
    arg,             \* the delta of that step, when it moved the selection
    calls,           \* the external processes that step ran
    ret,             \* what the engine operation applied last returned
    terminal         \* who has the terminal: "curses" (visual mode) or "shell"
                     \* (curses was not started, or endwin() left visual mode)

vars == <<disk, results, selected_index, scroll_offset, height, list_height,
          status_message, copying, workers, pc, op, fsBudget, keys, event, arg, calls, ret,
          terminal>>

----------------------------------------------------------------------------
(* Bounds of the model *)

NPaths == 2

MaxTermHeight == 8

MaxWorkers == 2

MaxFsChanges == 1

MaxDelta == 3

MaxKeys == 2

MaxMtime == 3

(* Constants of the program *)

Reserved == 6

FirstRow == 4

BottomRows == 2

TimeTolerance == 1

SampleLen == 512

----------------------------------------------------------------------------
(* Values *)

Paths == 1..NPaths

Sides == {"left", "right"}

Other(side) == IF side = "left" THEN "right" ELSE "left"

Max(a, b) == IF a >= b THEN a ELSE b

Min(a, b) == IF a <= b THEN a ELSE b

Abs(x) == IF x < 0 THEN -x ELSE x

\* A slot of a tree with nothing in it.  present: is_file() is true of the path;
\* kind: what rglob finds there.
Absent == [present |-> FALSE, data |-> <<>>, mtime |-> 0, readable |-> FALSE, kind |-> "none"]

\* A regular file: its bytes, its modification time, whether open() succeeds.
File(d, t, r) == [present |-> TRUE, data |-> d, mtime |-> t, readable |-> r, kind |-> "file"]

\* A symbolic link whose target is the regular file f: is_file(), stat() and
\* open() follow the link.
Link(f) == [f EXCEPT !.kind = "link"]

\* A directory, a FIFO, a socket, a device or a dangling link: is_file() is false.
NonRegular == [Absent EXCEPT !.kind = "other"]

\* FileInfo._hash before the first access.
HNone == <<-1>>

\* The empty string a failed read leaves in FileInfo._hash.
Sentinel == <<>>

\* A variant of Md5 whose digest of no bytes is the empty string.
Md5_of_nothing_empty(d) == d

\* hashlib.md5(bytes).hexdigest(): never empty, one digest per content.
Md5(d) == <<0>> \o d

\* A side of a ComparisonResult that is None.
NoInfo == [present |-> FALSE, exists |-> FALSE, size |-> 0, mtime |-> 0, hash |-> HNone]

\* FileInfo.__init__: stat of the file f found at the path.
FileInfo(f) ==
    [present |-> TRUE,
     exists  |-> f.present,
     size    |-> IF f.present THEN Len(f.data) ELSE 0,
     mtime   |-> IF f.present THEN f.mtime ELSE 0,
     hash    |-> HNone]

\* A variant of hash_load that reads the file on every access.
hash_load_every_time(fi, f) ==
    IF fi.exists
    THEN [fi EXCEPT !.hash = IF f.present /\ f.readable THEN Md5(f.data) ELSE Sentinel]
    ELSE fi

\* FileInfo.hash, the state it leaves: the digest is read on the first access of
\* an existing record and kept; a failed open leaves the empty string.
hash_load(fi, f) ==
    IF fi.hash = HNone /\ fi.exists
    THEN [fi EXCEPT !.hash = IF f.present /\ f.readable THEN Md5(f.data) ELSE Sentinel]
    ELSE fi

\* A variant of hash that returns before the digest it read is stored: the
\* first access gives the empty string.
hash_unloaded(fi, f) == IF fi.hash = HNone THEN Sentinel ELSE fi.hash

\* FileInfo.hash, the value it returns: self._hash or "".
hash(fi, f) ==
    LET h == hash_load(fi, f).hash IN IF h = HNone THEN Sentinel ELSE h

\* ComparisonResult.__init__
ComparisonResult(p, l, r) == [relative_path |-> p, left_file |-> l, right_file |-> r]

\* A variant of status_eval that compares the digests before the modification times.
status_eval_hash_first(r, lf, rf) ==
    IF ~r.left_file.present \/ ~r.left_file.exists
    THEN [status |-> "ONLY_RIGHT", result |-> r]
    ELSE IF ~r.right_file.present \/ ~r.right_file.exists
    THEN [status |-> "ONLY_LEFT", result |-> r]
    ELSE IF r.left_file.size # r.right_file.size
    THEN [status |-> "DIFFERENT_SIZE", result |-> r]
    ELSE LET r2 == [r EXCEPT !.left_file = hash_load(r.left_file, lf),
                             !.right_file = hash_load(r.right_file, rf)]
         IN IF hash(r.left_file, lf) # hash(r.right_file, rf)
            THEN [status |-> "DIFFERENT_CONTENT", result |-> r2]
            ELSE IF Abs(r.left_file.mtime - r.right_file.mtime) > TimeTolerance
            THEN [status |-> "DIFFERENT_TIME", result |-> r2]
            ELSE [status |-> "IDENTICAL", result |-> r2]

\* A variant of status_eval that reports times exactly TimeTolerance apart as
\* different.
status_eval_no_tolerance(r, lf, rf) ==
    IF ~r.left_file.present \/ ~r.left_file.exists
    THEN [status |-> "ONLY_RIGHT", result |-> r]
    ELSE IF ~r.right_file.present \/ ~r.right_file.exists
    THEN [status |-> "ONLY_LEFT", result |-> r]
    ELSE IF r.left_file.size # r.right_file.size
    THEN [status |-> "DIFFERENT_SIZE", result |-> r]
    ELSE IF Abs(r.left_file.mtime - r.right_file.mtime) >= TimeTolerance
    THEN [status |-> "DIFFERENT_TIME", result |-> r]
    ELSE LET r2 == [r EXCEPT !.left_file = hash_load(r.left_file, lf),
                             !.right_file = hash_load(r.right_file, rf)]
         IN IF hash(r.left_file, lf) # hash(r.right_file, rf)
            THEN [status |-> "DIFFERENT_CONTENT", result |-> r2]
            ELSE [status |-> "IDENTICAL", result |-> r2]

\* ComparisonResult.status: the value returned and the result as the evaluation
\* leaves it (the digests it read are cached in the two records).  lf and rf are
\* the files now at the two paths.
status_eval(r, lf, rf) ==
    IF ~r.left_file.present \/ ~r.left_file.exists
    THEN [status |-> "ONLY_RIGHT", result |-> r]
    ELSE IF ~r.right_file.present \/ ~r.right_file.exists
    THEN [status |-> "ONLY_LEFT", result |-> r]
    ELSE IF r.left_file.size # r.right_file.size
    THEN [status |-> "DIFFERENT_SIZE", result |-> r]
    ELSE IF Abs(r.left_file.mtime - r.right_file.mtime) > TimeTolerance
    THEN [status |-> "DIFFERENT_TIME", result |-> r]
    ELSE LET r2 == [r EXCEPT !.left_file = hash_load(r.left_file, lf),
                             !.right_file = hash_load(r.right_file, rf)]
         IN IF hash(r.left_file, lf) # hash(r.right_file, rf)
            THEN [status |-> "DIFFERENT_CONTENT", result |-> r2]
            ELSE [status |-> "IDENTICAL", result |-> r2]

status(r, d) ==
    status_eval(r, d["left"][r.relative_path], d["right"][r.relative_path]).status

\* The result after its status was evaluated against the trees d.
touched(r, d) ==
    status_eval(r, d["left"][r.relative_path], d["right"][r.relative_path]).result

\* f.read(512)
Sample(data) == SubSeq(data, 1, Min(Len(data), SampleLen))

TextByte(b) == (b >= 32 /\ b < 127) \/ b \in {9, 10, 13}

\* sum(1 for b in data if b in range(32, 127) or b in [9, 10, 13])
text_chars(s) == Cardinality({i \in 1..Len(s) : TextByte(s[i])})

\* A variant of is_text that takes a sample with exactly 70% of text for text.
is_text_at_least(s) == s = <<>> \/ 10 * text_chars(s) >= 7 * Len(s)

\* is_text of can_merge: text_chars / len(data) > 0.7
is_text(s) == s = <<>> \/ 10 * text_chars(s) > 7 * Len(s)

\* ComparisonResult.can_merge, the value returned.
can_merge(r, d) ==
    LET lf == d["left"][r.relative_path]
        rf == d["right"][r.relative_path]
    IN /\ r.left_file.present /\ r.left_file.exists
       /\ r.right_file.present /\ r.right_file.exists
       /\ status(r, d) # "IDENTICAL"
       /\ lf.present /\ lf.readable /\ rf.present /\ rf.readable
       /\ is_text(Sample(lf.data)) /\ is_text(Sample(rf.data))

\* ComparisonResult.can_merge, the result it leaves: status is evaluated only
\* when both sides exist.
can_merge_touched(r, d) ==
    IF r.left_file.present /\ r.left_file.exists
       /\ r.right_file.present /\ r.right_file.exists
    THEN touched(r, d) ELSE r

----------------------------------------------------------------------------
(* DirectoryComparer *)

\* _scan_directory: the relative paths of the regular files of one tree.
scan_keys(d, side) == {p \in Paths : d[side][p].present}

\* _scan_directory: files.get(p), None for a path that is no key.
scan_get(d, side, p) ==
    IF p \in scan_keys(d, side) THEN FileInfo(d[side][p]) ELSE NoInfo

RECURSIVE sorted(_)
sorted(S) ==
    IF S = {} THEN <<>>
    ELSE LET m == CHOOSE x \in S : \A y \in S : x <= y
         IN <<m>> \o sorted(S \ {m})

\* A variant of build_results that keeps the paths found in both trees only.
build_results_common(files) ==
    LET all_relative_paths ==
            {p \in Paths : files["left"][p].present /\ files["right"][p].present}
        order == sorted(all_relative_paths)
    IN [i \in 1..Len(order) |->
            ComparisonResult(order[i], files["left"][order[i]], files["right"][order[i]])]

\* scan_directories, from the two mappings _scan_directory returned
\* (files[side][p] is NoInfo for a path that is no key): one result per path of
\* the union, in sorted order.
build_results(files) ==
    LET all_relative_paths ==
            {p \in Paths : files["left"][p].present}
                \cup {p \in Paths : files["right"][p].present}
        order == sorted(all_relative_paths)
    IN [i \in 1..Len(order) |->
            ComparisonResult(order[i], files["left"][order[i]], files["right"][order[i]])]

\* scan_directories on trees that do not change while they are scanned.
scan_directories(d) ==
    build_results([s \in Sides |-> [p \in Paths |-> scan_get(d, s, p)]])


SideOf(r, side) == IF side = "left" THEN r.left_file ELSE r.right_file

SetSide(r, side, fi) ==
    IF side = "left" THEN [r EXCEPT !.left_file = fi] ELSE [r EXCEPT !.right_file = fi]

\* The ways the operating system can end shutil.copy2: it copies the file, it
\* refuses before a byte is written (permission denied), or it fails after the
\* destination was opened and partly written (disk full, source vanished).
CopyErrors == {"none", "refused", "partial"}

\* The destination file a copy that failed half-way leaves: a proper prefix of
\* the bytes, written now (the latest time of the model).
partial_file(sf) ==
    File(SubSeq(sf.data, 1, Len(sf.data) - 1), MaxMtime, TRUE)

\* A variant of copy_source_ok that accepts every result.
copy_source_unchecked(r, src) == TRUE

\* copy_file_...: "if not result.left_file or not result.left_file.exists" is false.
copy_source_ok(r, src) == SideOf(r, src).present /\ SideOf(r, src).exists

\* A variant of copy2 that gives the copy the time of the copy (shutil.copy).
copy2_new_time(sf) == [sf EXCEPT !.mtime = MaxMtime]

\* shutil.copy2: the destination file gets the bytes, the modification time
\* and the permission bits of the source.
copy2(sf) == [sf EXCEPT !.kind = "file"]

\* A variant of patched_record that keeps the digest of the record it replaces.
patched_record_keeps_hash(old, f) == [FileInfo(f) EXCEPT !.hash = old.hash]

\* copy_file_...: result.right_file = FileInfo(dest_path, ...), in place of the
\* record old, for the file f now at the destination.
patched_record(old, f) == FileInfo(f)

\* A variant of failed_results that takes the file left at the destination
\* into the result.
failed_results_adopt(res, index, dst, f) ==
    [res EXCEPT ![index + 1] = SetSide(res[index + 1], dst, FileInfo(f))]

\* copy_file_...: "except (OSError, IOError): return False" leaves the results
\* as they are, whatever file f the failed copy left at the destination.
failed_results(res, index, dst, f) == res

\* A variant of dest_path that drops the relative path and writes every copy to
\* the first path of the destination tree.
dest_path_flat(p) == 1

\* copy_file_...: dest_path = self.right_dir / result.relative_path, the path
\* of the destination tree the copy is written to.
dest_path(p) == p

\* copy_file_left_to_right (src = "left") and copy_file_right_to_left (src =
\* "right") on the trees d and the result list res; oserr: how the operating
\* system ends the copy.  called: shutil.copy2 ran.  calls: the file system
\* calls made, in order.
copy_file(d, res, index, src, oserr) ==
    LET dst == Other(src)
        no  == [ok |-> FALSE, disk |-> d, results |-> res, called |-> FALSE, calls |-> <<>>]
    IN IF ~(0 <= index /\ index < Len(res)) THEN no
       ELSE LET r  == res[index + 1]
                p  == r.relative_path
                sf == d[src][p]
            IN IF ~copy_source_ok(r, src) THEN no
               ELSE IF ~sf.present \/ ~sf.readable \/ oserr = "refused"
               THEN [no EXCEPT !.called = TRUE, !.calls = <<"mkdir", "copy2">>,
                               !.results = failed_results(res, index, dst, d[dst][p])]
               ELSE IF oserr = "partial"
               THEN LET d1 == [d EXCEPT ![dst][dest_path(p)] = partial_file(sf)]
                    IN [no EXCEPT !.called = TRUE, !.calls = <<"mkdir", "copy2">>,
                                  !.disk = d1,
                                  !.results = failed_results(res, index, dst, d1[dst][dest_path(p)])]
               ELSE LET d2 == [d EXCEPT ![dst][dest_path(p)] = copy2(sf)]
                    IN [ok      |-> TRUE,
                        disk    |-> d2,
                        results |-> [res EXCEPT ![index + 1] =
                                        SetSide(r, dst, patched_record(SideOf(r, dst), d2[dst][dest_path(p)]))],
                        called  |-> TRUE,
                        calls   |-> <<"mkdir", "copy2", "FileInfo">>]

\* edit_file: the sides whose path is handed to the editor.
files_to_edit(r, side) ==
    {s \in Sides : (side = s \/ side = "both") /\ SideOf(r, s).present /\ SideOf(r, s).exists}

\* edit_file: the editor invocations, in order, for the sides fs; split: the
\* editor's name holds "vim".
edit_invocations(fs, split) ==
    IF Cardinality(fs) = 1 THEN <<fs>>
    ELSE IF split THEN <<fs>>
    ELSE <<{"left"}, {"right"}>>

----------------------------------------------------------------------------
(* CursesUI *)

\* A variant of adjust_scroll that scrolls one row short when the selection is
\* below the viewport.
adjust_scroll_short(sel, scroll, lh) ==
    IF sel < scroll THEN sel
    ELSE IF sel >= scroll + lh THEN Max(0, sel - lh)
    ELSE scroll

\* _draw_file_list: the scroll offset after "Adjust scroll offset".
adjust_scroll(sel, scroll, lh) ==
    IF sel < scroll THEN sel
    ELSE IF sel >= scroll + lh THEN Max(0, sel - lh + 1)
    ELSE scroll

\* _draw_file_list: the rows drawn.
rows(scroll, lh, h, n) ==
    {i \in 0..(lh - 1) : scroll + i < n /\ FirstRow + i < h - BottomRows}

\* _draw_file_list: the results after the rows were drawn (status and can_merge
\* are read for each row).
drawn(res, d, scroll, lh, h) ==
    [k \in 1..Len(res) |->
        IF (k - 1 - scroll) \in rows(scroll, lh, h, Len(res))
        THEN can_merge_touched(touched(res[k], d), d)
        ELSE res[k]]

\* A variant of clamp_index that lets the index reach len.
clamp_index_to_len(new_index, n) == Max(0, Min(n, new_index))

\* max(0, min(len - 1, new_index))
clamp_index(new_index, n) == Max(0, Min(n - 1, new_index))

\* A variant of rejected that does not look at copying.
rejected_if_empty == results = <<>>

\* The guard every command but refresh starts with.
rejected == copying \/ results = <<>>

\* A copy thread that is not running.  pc: the statement copy_thread is at;
\* src: the side it copies from; ok: what copy_file_... returned; path: the
\* relative path of the row selected when its key was handled (copy_thread
\* itself holds no such value: it reads selected_index when it runs).
Idle == [pc |-> "idle", src |-> "left", ok |-> FALSE, path |-> 0]

\* No external process is awaited.
NoOp == [kind |-> "none", side |-> "both", fs |-> {}, path |-> 0]

Alive == pc \notin {"exit", "crashed"}

\* run: stdscr.getch() returns a key.
GetKey == pc = "getch" /\ keys < MaxKeys /\ keys' = keys + 1

TermHeights == Reserved..MaxTermHeight


----------------------------------------------------------------------------
(* The files the trees start with and external processes write *)

FileValues == {File(<<65>>, 0, TRUE), File(<<66>>, 0, TRUE)}

\* The trees a session starts with: both empty, or every path with the same
\* pair of files (different content on the two sides, or on the left only).
InitPairs ==
    {[left |-> Absent, right |-> Absent],
     [left |-> File(<<65>>, 0, TRUE), right |-> File(<<66>>, 0, TRUE)],
     [left |-> File(<<65>>, 0, TRUE), right |-> Absent]}

InitDisks == {[s \in Sides |-> [p \in Paths |-> pair[s]]] : pair \in InitPairs}

\* The trees after an external process rewrote, created or removed one file,
\* or did nothing; n: the file changes it may still make.
fs_changes(d, slots, n) ==
    {d} \cup
    {[d EXCEPT ![sp[1]][sp[2]] = f] :
        sp \in (IF n > 0 THEN slots ELSE {}), f \in FileValues \cup {Absent}}

----------------------------------------------------------------------------
(* main() and CursesUI.__init__ *)

Init ==
    /\ disk \in InitDisks
    /\ results = scan_directories(disk)
    /\ selected_index = 0
    /\ scroll_offset = 0
    /\ height = 0
    /\ list_height = 0
    /\ status_message = ""
    /\ copying = FALSE
    /\ workers = [w \in 1..MaxWorkers |-> Idle]
    /\ pc = "draw"
    /\ op = NoOp
    /\ fsBudget = MaxFsChanges
    /\ keys = 0
    /\ event = "init"
    /\ arg = 0
    /\ calls = <<>>
    /\ ret = ""
    /\ terminal = "curses"

\* run: _update_dimensions and _draw_screen, with the terminal h rows high.
Draw ==
    /\ pc = "draw"
    /\ \E h \in TermHeights :
        LET lh == Max(1, h - Reserved)
            so == IF results = <<>> THEN scroll_offset
                  ELSE adjust_scroll(selected_index, scroll_offset, lh)
        IN /\ height' = h
           /\ list_height' = lh
           /\ scroll_offset' = so
           /\ results' = drawn(results, disk, so, lh, h)
    /\ arg' = 0
    /\ pc' = "getch"
    /\ event' = "draw"
    /\ calls' = <<>>
    /\ UNCHANGED <<terminal, ret, disk, selected_index, status_message, copying, workers, op,
                   fsBudget, keys>>

\* A variant of selection_after that never moves the selection up.
selection_after_down_only(sel, n, delta) ==
    IF n = 0 \/ delta < 0 THEN sel ELSE clamp_index(sel + delta, n)

\* _move_selection: the selected index it leaves, from the index sel on a list
\* of n results.
selection_after(sel, n, delta) ==
    IF n = 0 THEN sel ELSE clamp_index(sel + delta, n)

\* _move_selection
move_selection(delta) ==
    /\ IF results = <<>>
       THEN UNCHANGED <<selected_index, status_message>>
       ELSE /\ selected_index' = selection_after(selected_index, Len(results), delta)
            /\ status_message' = ""
    /\ event' = "move"
    /\ arg' = delta
    /\ calls' = <<>>
    /\ UNCHANGED <<terminal, ret, disk, results, scroll_offset, height, list_height, copying,
                   workers, op, fsBudget>>

\* run: the keys up, down, page up, page down, home, end.
KeyMove ==
    /\ GetKey
    /\ \E delta \in {-1, 1, -list_height, list_height, -Len(results), Len(results)} :
        move_selection(delta)
    /\ pc' = "draw"

\* run: q or ESC.
KeyQuit ==
    /\ GetKey
    /\ pc' = "exit"
    /\ event' = "quit"
    /\ arg' = 0
    /\ calls' = <<>>
    /\ UNCHANGED <<terminal, ret, disk, results, selected_index, scroll_offset, height, list_height,
                   status_message, copying, workers, op, fsBudget>>

\* run: h or ?: _show_help.
KeyHelp ==
    /\ GetKey
    /\ pc' = "draw"
    /\ event' = "help"
    /\ arg' = 0
    /\ calls' = <<>>
    /\ UNCHANGED <<terminal, ret, disk, results, selected_index, scroll_offset, height, list_height,
                   status_message, copying, workers, op, fsBudget>>

\* _copy_file_left_to_right (src = "left"), _copy_file_right_to_left (src =
\* "right"): the thread is started; copy_thread has not run a statement yet.
UI_copy_file(src) ==
    /\ GetKey
    /\ IF rejected
       THEN UNCHANGED workers
       ELSE \E w \in 1..MaxWorkers :
              /\ workers[w].pc = "idle"
              /\ \A v \in 1..(w - 1) : workers[v].pc # "idle"
              /\ workers' = [workers EXCEPT ![w] =
                    [pc |-> "start", src |-> src, ok |-> FALSE,
                     path |-> IF selected_index < Len(results)
                              THEN results[selected_index + 1].relative_path ELSE 0]]
    /\ pc' = "draw"
    /\ event' = IF src = "left" THEN "copy_lr" ELSE "copy_rl"
    /\ arg' = 0
    /\ calls' = <<>>
    /\ UNCHANGED <<terminal, ret, disk, results, selected_index, scroll_offset, height, list_height,
                   status_message, copying, op, fsBudget>>

KeyCopy == \E src \in Sides : UI_copy_file(src)

\* copy_thread: self.copying = True
WorkerStart(w) ==
    /\ Alive
    /\ workers[w].pc = "start"
    /\ copying' = TRUE
    /\ workers' = [workers EXCEPT ![w].pc = "copy"]
    /\ UNCHANGED <<terminal, ret, keys, event, arg, calls, disk, results, selected_index, scroll_offset, height, list_height,
                   status_message, pc, op, fsBudget>>

\* copy_thread: success = self.comparer.copy_file_...(self.comparer.selected_index)
WorkerCopy(w) ==
    /\ Alive
    /\ workers[w].pc = "copy"
    /\ \E oserr \in CopyErrors :
        LET c == copy_file(disk, results, selected_index, workers[w].src, oserr)
        IN /\ oserr = "partial" => fsBudget > 0
           /\ fsBudget' = IF c.disk # disk /\ ~c.ok THEN fsBudget - 1 ELSE fsBudget
           /\ disk' = c.disk
           /\ results' = c.results
           /\ workers' = [workers EXCEPT ![w].pc = "clear", ![w].ok = c.ok]
    /\ UNCHANGED <<terminal, ret, keys, event, arg, calls, selected_index, scroll_offset, height, list_height,
                   status_message, copying, pc, op>>

\* copy_thread: self.copying = False
WorkerClear(w) ==
    /\ Alive
    /\ workers[w].pc = "clear"
    /\ copying' = FALSE
    /\ workers' = [workers EXCEPT ![w].pc = "msg"]
    /\ UNCHANGED <<terminal, ret, keys, event, arg, calls, disk, results, selected_index, scroll_offset, height, list_height,
                   status_message, pc, op, fsBudget>>

\* copy_thread: self.status_message = ...; the thread ends.
WorkerMsg(w) ==
    /\ Alive
    /\ workers[w].pc = "msg"
    /\ status_message' =
          IF ~workers[w].ok THEN "Failed to copy file"
          ELSE IF workers[w].src = "left" THEN "File copied left -> right"
          ELSE "File copied right -> left"
    /\ workers' = [workers EXCEPT ![w] = Idle]
    /\ UNCHANGED <<terminal, ret, keys, event, arg, calls, disk, results, selected_index, scroll_offset, height, list_height,
                   copying, pc, op, fsBudget>>

Worker == \E w \in 1..MaxWorkers :
    WorkerStart(w) \/ WorkerCopy(w) \/ WorkerClear(w) \/ WorkerMsg(w)


\* A variant of resume_curses that stays out of visual mode after an editor or
\* tool that failed.
resume_unless_failed(outcome) == IF outcome = "fail" THEN "shell" ELSE "curses"

\* finally: curses.doupdate(), however the external process ended.
resume_curses(outcome) == "curses"

\* subprocess.run(..., check=True) of edit_file for the sides fs: the number of
\* invocations made and how the last one ended (ok: exit status 0; fail:
\* CalledProcessError or FileNotFoundError; oserror: any other OSError).
edit_runs(fs) ==
    {run \in [n : 1..2, outcome : {"ok", "fail", "oserror"}] :
        \E split \in BOOLEAN :
            LET m == Len(edit_invocations(fs, split))
            IN run.n <= m /\ (run.outcome = "ok" => run.n = m)}

edit_message(side) ==
    IF side = "both" THEN "Files edited successfully"
    ELSE IF side = "left" THEN "Left file edited successfully"
    ELSE "Right file edited successfully"

\* _edit_file up to the start of the editor (e: both, E: left, w: right).
UI_edit_file(side) ==
    /\ GetKey
    /\ event' = "edit"
    /\ arg' = 0
    /\ calls' = <<>>
    /\ IF rejected
       THEN /\ pc' = "draw"
            /\ UNCHANGED <<status_message, copying, op, terminal>>
       ELSE IF selected_index >= Len(results)
       THEN /\ pc' = "crashed"
            /\ UNCHANGED <<status_message, copying, op, terminal>>
       ELSE LET r  == results[selected_index + 1]
                fs == files_to_edit(r, side)
            IN IF fs = {}
               THEN /\ status_message' = "No " \o side \o " file(s) to edit"
                    /\ pc' = "draw"
                    /\ UNCHANGED <<copying, op, terminal>>
               ELSE /\ copying' = TRUE
                    /\ status_message' = "Editing " \o side \o " file(s)..."
                    /\ terminal' = "shell"
                    /\ pc' = "edit"
                    /\ op' = [kind |-> "edit", side |-> side, fs |-> fs,
                              path |-> r.relative_path]
    /\ UNCHANGED <<ret, disk, results, selected_index, scroll_offset, height, list_height,
                   workers, fsBudget>>

KeyEdit == \E side \in {"both", "left", "right"} : UI_edit_file(side)

\* _edit_file from the end of the editor: the rescan on success, the finally block.
EditEnd ==
    /\ pc = "edit"
    /\ \E run \in edit_runs(op.fs) :
        /\ calls' = [i \in 1..run.n |-> "editor"]
        /\ terminal' = resume_curses(run.outcome)
        /\ copying' = FALSE
        /\ IF run.outcome = "ok"
           THEN /\ results' = scan_directories(disk)
                /\ status_message' = edit_message(op.side)
                /\ pc' = "draw"
           ELSE IF run.outcome = "fail"
           THEN /\ status_message' = "Editor failed or was cancelled"
                /\ pc' = "draw"
                /\ UNCHANGED results
           ELSE /\ pc' = "crashed"
                /\ UNCHANGED <<results, status_message>>
    /\ op' = NoOp
    /\ event' = "edit_end"
    /\ arg' = 0
    /\ UNCHANGED <<ret, keys, disk, selected_index, scroll_offset, height, list_height,
                   workers, fsBudget>>

MergeTools == <<"vimdiff", "meld", "diff3", "merge">>

\* merge_files: the loop over merge_tools.  out[i]: absent (shutil.which finds
\* nothing), ok, fail, oserror.  The index of the tool the loop ends at, or
\* Len(MergeTools) + 1 when it runs through.
merge_stop(out) ==
    LET S == {i \in 1..Len(MergeTools) : out[i] \in {"ok", "oserror"}}
    IN IF S = {} THEN Len(MergeTools) + 1 ELSE CHOOSE i \in S : \A j \in S : i <= j

RECURSIVE merge_calls(_, _)
merge_calls(out, upto) ==
    IF upto = 0 THEN <<>>
    ELSE merge_calls(out, upto - 1)
         \o (IF out[upto] = "absent" THEN <<>> ELSE <<MergeTools[upto]>>)

\* _merge_files up to the start of the first tool (m).
KeyMerge ==
    /\ GetKey
    /\ event' = "merge"
    /\ arg' = 0
    /\ calls' = <<>>
    /\ IF rejected
       THEN /\ pc' = "draw"
            /\ UNCHANGED <<results, status_message, copying, op, terminal>>
       ELSE IF selected_index >= Len(results)
       THEN /\ pc' = "crashed"
            /\ UNCHANGED <<results, status_message, copying, op, terminal>>
       ELSE LET r == results[selected_index + 1]
            IN /\ results' = [results EXCEPT ![selected_index + 1] = can_merge_touched(r, disk)]
               /\ IF ~can_merge(r, disk)
                  THEN /\ status_message' = "Files cannot be merged (missing or binary)"
                       /\ pc' = "draw"
                       /\ UNCHANGED <<copying, op, terminal>>
                  ELSE /\ copying' = TRUE
                       /\ status_message' = "Starting merge tool..."
                       /\ terminal' = "shell"
                       /\ pc' = "merge"
                       /\ op' = [kind |-> "merge", side |-> "both", fs |-> Sides,
                                 path |-> r.relative_path]
    /\ UNCHANGED <<ret, disk, selected_index, scroll_offset, height, list_height,
                   workers, fsBudget>>

\* _merge_files from the tools on: merge_files' loop, its fall back to
\* edit_file(index, "both"), the rescan on success, the finally block.
MergeEnd ==
    /\ pc = "merge"
    /\ \E out \in [1..Len(MergeTools) -> {"absent", "ok", "fail", "oserror"}] :
        LET stop == merge_stop(out)
            tools == merge_calls(out, Min(stop, Len(MergeTools)))
            fs == IF selected_index < Len(results)
                  THEN files_to_edit(results[selected_index + 1], "both") ELSE {}
        IN \E run \in (IF stop <= Len(MergeTools)
                       THEN {[n |-> 0, outcome |-> out[stop]]}
                       ELSE IF fs = {} THEN {[n |-> 0, outcome |-> "fail"]}
                       ELSE edit_runs(fs)) :
            /\ calls' = tools \o [i \in 1..run.n |-> "editor"]
            /\ terminal' = resume_curses(run.outcome)
            /\ copying' = FALSE
            /\ IF run.outcome = "ok"
               THEN /\ results' = scan_directories(disk)
                    /\ status_message' = "Files merged successfully"
                    /\ pc' = "draw"
               ELSE IF run.outcome = "fail"
               THEN /\ status_message' = "Merge failed or was cancelled"
                    /\ pc' = "draw"
                    /\ UNCHANGED results
               ELSE /\ pc' = "crashed"
                    /\ UNCHANGED <<results, status_message>>
    /\ op' = NoOp
    /\ event' = "merge_end"
    /\ arg' = 0
    /\ UNCHANGED <<ret, keys, disk, selected_index, scroll_offset, height, list_height,
                   workers, fsBudget>>

\* _manual_merge up to the start of the editor (M); tmpfail: create_merge_file
\* cannot write its temporary file and returns None.
KeyManualMerge ==
    /\ GetKey
    /\ event' = "manual_merge"
    /\ arg' = 0
    /\ IF rejected
       THEN /\ pc' = "draw"
            /\ calls' = <<>>
            /\ UNCHANGED <<results, status_message, copying, op, terminal>>
       ELSE IF selected_index >= Len(results)
       THEN /\ pc' = "crashed"
            /\ calls' = <<>>
            /\ UNCHANGED <<results, status_message, copying, op, terminal>>
       ELSE LET r == results[selected_index + 1]
            IN /\ results' = [results EXCEPT ![selected_index + 1] = can_merge_touched(r, disk)]
               /\ IF ~can_merge(r, disk)
                  THEN /\ status_message' = "Files cannot be merged (missing or binary)"
                       /\ pc' = "draw"
                       /\ calls' = <<>>
                       /\ UNCHANGED <<copying, op, terminal>>
                  ELSE \E tmpfail \in BOOLEAN :
                       /\ calls' = <<"create_merge_file">>
                       /\ IF tmpfail
                          THEN /\ status_message' = "Failed to create merge file"
                               /\ pc' = "draw"
                               /\ UNCHANGED <<copying, op, terminal>>
                          ELSE /\ copying' = TRUE
                               /\ status_message' = "Opening merge file in editor..."
                               /\ terminal' = "shell"
                               /\ pc' = "mmerge"
                               /\ op' = [kind |-> "manual_merge", side |-> "both",
                                         fs |-> {}, path |-> r.relative_path]
    /\ UNCHANGED <<ret, disk, selected_index, scroll_offset, height, list_height,
                   workers, fsBudget>>

\* _manual_merge from the end of the editor on.
ManualMergeEnd ==
    /\ pc = "mmerge"
    /\ \E outcome \in {"ok", "fail", "oserror"} :
        /\ terminal' = resume_curses(outcome)
        /\ IF outcome = "ok"
           THEN /\ status_message' = "Manual merge completed"
                /\ copying' = FALSE
                /\ pc' = "draw"
           ELSE IF outcome = "fail"
           THEN /\ status_message' = "Failed to open merge file in editor"
                /\ copying' = FALSE
                /\ pc' = "draw"
           ELSE /\ pc' = "crashed"
                /\ UNCHANGED <<status_message, copying>>
    /\ op' = NoOp
    /\ event' = "manual_merge_end"
    /\ arg' = 0
    /\ calls' = <<"editor">>
    /\ UNCHANGED <<ret, keys, disk, results, selected_index, scroll_offset, height, list_height,
                   workers, fsBudget>>

\* A variant of refresh_directories that keeps a selection the new list can hold.
refresh_keeps_selection(d, sel, so) ==
    [results        |-> scan_directories(d),
     selected_index |-> IF sel < Len(scan_directories(d)) THEN sel ELSE 0,
     scroll_offset  |-> 0]

\* _refresh_directories: what it leaves of the trees d, the selected index sel
\* and the scroll offset so.
refresh_directories(d, sel, so) ==
    [results        |-> scan_directories(d),
     selected_index |-> 0,
     scroll_offset  |-> 0]

\* _refresh_directories (r); arg: how far the selection moved.
KeyRefresh ==
    /\ GetKey
    /\ LET new == refresh_directories(disk, selected_index, scroll_offset)
       IN /\ results' = new.results
          /\ selected_index' = new.selected_index
          /\ scroll_offset' = new.scroll_offset
          /\ arg' = new.selected_index - selected_index
    /\ status_message' = "Refreshed"
    /\ pc' = "draw"
    /\ event' = "refresh"
    /\ calls' = <<>>
    /\ UNCHANGED <<terminal, ret, disk, height, list_height, copying, workers, op, fsBudget>>

\* The files the external process the main thread waits for was handed.
ToolSlots == {<<s, op.path>> : s \in op.fs}

\* A process outside the program changes a file: the editor or merge tool the
\* main thread waits for changes one it was handed.
ToolWrites ==
    /\ pc \in {"edit", "merge"}
    /\ fsBudget > 0
    /\ \E d2 \in fs_changes(disk, ToolSlots, fsBudget) \ {disk} : disk' = d2
    /\ fsBudget' = fsBudget - 1
    /\ UNCHANGED <<terminal, ret, keys, event, arg, calls, results, selected_index, scroll_offset, height, list_height,
                   status_message, copying, workers, pc, op>>

\* A process outside the program changes a file: any other process, any file.
OtherWrites ==
    /\ Alive
    /\ fsBudget > 0
    /\ \E d2 \in fs_changes(disk, Sides \X Paths, fsBudget) \ {disk} : disk' = d2
    /\ fsBudget' = fsBudget - 1
    /\ UNCHANGED <<terminal, ret, keys, event, arg, calls, results, selected_index, scroll_offset, height, list_height,
                   status_message, copying, workers, pc, op>>

Next ==
    \/ Draw
    \/ KeyMove
    \/ KeyQuit
    \/ KeyHelp
    \/ KeyCopy
    \/ KeyEdit
    \/ EditEnd
    \/ KeyMerge
    \/ MergeEnd
    \/ KeyManualMerge
    \/ ManualMergeEnd
    \/ KeyRefresh
    \/ Worker
    \/ ToolWrites
    \/ OtherWrites

Spec == Init /\ [][Next]_vars

\* The session when every copy thread started is scheduled until it ends and
\* every editor and merge tool started terminates.
SpecLive ==
    /\ Init
    /\ [][Next]_vars
    /\ WF_vars(Worker)
    /\ WF_vars(EditEnd)
    /\ WF_vars(MergeEnd)
    /\ WF_vars(ManualMergeEnd)


\* The session in which files are changed through the program's own commands
\* only: by its copies and by the editors and merge tools it starts.
OwnNext ==
    \/ Draw
    \/ KeyMove
    \/ KeyQuit
    \/ KeyHelp
    \/ KeyCopy
    \/ KeyEdit
    \/ EditEnd
    \/ KeyMerge
    \/ MergeEnd
    \/ KeyManualMerge
    \/ ManualMergeEnd
    \/ KeyRefresh
    \/ Worker
    \/ ToolWrites

SpecOwn == Init /\ [][OwnNext]_vars

----------------------------------------------------------------------------
(* Navigation alone: _move_selection and the scroll adjustment of            *)
(* _draw_file_list, from every selection, scroll offset and terminal height. *)

NavDisks ==
    {[s \in Sides |-> [p \in Paths |->
        IF s = "left" /\ p <= n THEN File(<<65>>, 0, TRUE) ELSE Absent]] : n \in 0..NPaths}

NavInit ==
    /\ disk \in NavDisks
    /\ results = scan_directories(disk)
    /\ selected_index \in 0..Max(0, Len(results) - 1)
    /\ scroll_offset \in 0..Max(0, Len(results) - 1)
    /\ height \in TermHeights
    /\ list_height = Max(1, height - Reserved)
    /\ status_message \in {"", "Refreshed"}
    /\ copying = FALSE
    /\ workers = [w \in 1..MaxWorkers |-> Idle]
    /\ pc \in {"draw", "getch"}
    /\ op = NoOp
    /\ fsBudget = 0
    /\ keys = 0
    /\ event = "init"
    /\ arg = 0
    /\ calls = <<>>
    /\ ret = ""
    /\ terminal = "curses"

NavMove ==
    /\ pc = "getch"
    /\ \E delta \in -MaxDelta..MaxDelta : move_selection(delta)
    /\ pc' = "draw"
    /\ UNCHANGED keys

NavNext == Draw \/ NavMove

SpecNav == NavInit /\ [][NavNext]_vars

----------------------------------------------------------------------------
(* Navigation there and back: the check test_curses.py makes of               *)
(* _move_selection, a move followed by the opposite move.                     *)

\* original_index = selected_index; _move_selection(delta); if the index
\* changed: _move_selection(-delta).  The test does this for delta = 1 and
\* only on a list that is not empty.
NavMoveBack ==
    /\ pc = "getch"
    /\ results # <<>>
    /\ \E delta \in -MaxDelta..MaxDelta :
        LET n     == Len(results)
            there == selection_after(selected_index, n, delta)
            back  == IF there # selected_index
                     THEN selection_after(there, n, -delta) ELSE there
        IN /\ selected_index' = back
           /\ arg' = delta
    /\ status_message' = ""
    /\ event' = "move_back"
    /\ calls' = <<>>
    /\ pc' = "draw"
    /\ UNCHANGED <<terminal, ret, disk, results, scroll_offset, height, list_height, copying,
                   workers, op, fsBudget, keys>>

BackNext == Draw \/ NavMove \/ NavMoveBack

SpecBack == NavInit /\ [][BackNext]_vars

----------------------------------------------------------------------------
(* The comparison engine alone: scans, status and can_merge evaluations,   *)
(* drawn rows and copies, in any order.                                     *)

Mtimes == 0..MaxMtime

EngLeft == {Absent, File(<<65>>, 1, TRUE), File(<<65>>, 1, FALSE)}

EngRight ==
    {Absent} \cup
    {File(d, t, r) : d \in {<<65>>, <<66>>, <<65, 65>>}, t \in Mtimes, r \in BOOLEAN}

\* The first path holds any pair of EngLeft and EngRight, the others a left file
\* alone, the same file on both sides, or nothing.
EngRest ==
    {[left |-> Absent, right |-> Absent],
     [left |-> File(<<65>>, 1, TRUE), right |-> Absent],
     [left |-> File(<<65>>, 1, TRUE), right |-> File(<<65>>, 1, TRUE)]}

EngDisks ==
    {[s \in Sides |-> [p \in Paths |->
        IF p = 1 THEN (IF s = "left" THEN l ELSE r) ELSE rest[s]]] :
        l \in EngLeft, r \in EngRight, rest \in EngRest}

EngInit ==
    /\ disk \in EngDisks
    /\ results = scan_directories(disk)
    /\ selected_index = 0
    /\ scroll_offset = 0
    /\ height = 0
    /\ list_height = 0
    /\ status_message = ""
    /\ copying = FALSE
    /\ workers = [w \in 1..MaxWorkers |-> Idle]
    /\ pc = "engine"
    /\ op = NoOp
    /\ fsBudget = 0
    /\ keys = 0
    /\ event = "init"
    /\ arg = 0
    /\ calls = <<>>
    /\ ret = ""
    /\ terminal = "shell"

EngFrame ==
    UNCHANGED <<terminal, selected_index, scroll_offset, height, list_height, status_message,
                copying, workers, pc, fsBudget, keys>>

EngCopyFrame ==
    UNCHANGED <<terminal, selected_index, scroll_offset, height, list_height, status_message,
                copying, workers, pc, keys>>

\* result.status for the result at index i.
EngStatus ==
    /\ \E i \in 0..(Len(results) - 1) :
        /\ ret' = status(results[i + 1], disk)
        /\ results' = [results EXCEPT ![i + 1] = touched(results[i + 1], disk)]
        /\ arg' = i
    /\ event' = "status"
    /\ calls' = <<>>
    /\ op' = NoOp
    /\ UNCHANGED disk
    /\ EngFrame

\* result.can_merge for the result at index i.
EngCanMerge ==
    /\ \E i \in 0..(Len(results) - 1) :
        /\ ret' = IF can_merge(results[i + 1], disk) THEN "True" ELSE "False"
        /\ results' = [results EXCEPT ![i + 1] = can_merge_touched(results[i + 1], disk)]
        /\ arg' = i
    /\ event' = "can_merge"
    /\ calls' = <<>>
    /\ op' = NoOp
    /\ UNCHANGED disk
    /\ EngFrame

\* _draw_file_list's rows, for any scroll offset and terminal height.
EngDraw ==
    /\ \E so \in 0..Len(results), h \in TermHeights :
        /\ results' = drawn(results, disk, so, Max(1, h - Reserved), h)
        /\ arg' = so
    /\ ret' = ""
    /\ event' = "draw"
    /\ calls' = <<>>
    /\ op' = NoOp
    /\ UNCHANGED disk
    /\ EngFrame

\* copy_file_left_to_right(i), copy_file_right_to_left(i), for any index.
EngCopy ==
    /\ \E i \in -1..Len(results), src \in Sides, oserr \in CopyErrors :
        LET c == copy_file(disk, results, i, src, oserr)
        IN /\ oserr = "partial" => fsBudget > 0
           /\ fsBudget' = IF c.disk # disk /\ ~c.ok THEN fsBudget - 1 ELSE fsBudget
           /\ disk' = c.disk
           /\ results' = c.results
           /\ ret' = IF c.ok THEN "True" ELSE "False"
           /\ calls' = c.calls
           /\ op' = [NoOp EXCEPT !.kind = "copy", !.side = src]
           /\ arg' = i
    /\ event' = "copy"
    /\ EngCopyFrame

\* The check test_dircomp.py makes: a copy, scan_directories(), and the
\* status of the path copied.
EngCopyRescan ==
    /\ \E i \in 0..(Len(results) - 1), src \in Sides, oserr \in CopyErrors :
        LET c == copy_file(disk, results, i, src, oserr)
            rescanned == scan_directories(c.disk)
            p == results[i + 1].relative_path
        IN /\ oserr = "partial" => fsBudget > 0
           /\ fsBudget' = IF c.disk # disk /\ ~c.ok THEN fsBudget - 1 ELSE fsBudget
           /\ disk' = c.disk
           /\ results' = rescanned
           /\ ret' = IF ~c.ok THEN "False"
                     ELSE LET j == CHOOSE k \in 1..Len(rescanned) : rescanned[k].relative_path = p
                          IN status(rescanned[j], c.disk)
           /\ calls' = c.calls
           /\ op' = [NoOp EXCEPT !.kind = "copy", !.side = src, !.path = p]
           /\ arg' = i
    /\ event' = "copy_rescan"
    /\ EngCopyFrame

\* scan_directories()
EngScan ==
    /\ results' = scan_directories(disk)
    /\ ret' = ""
    /\ arg' = 0
    /\ event' = "scan"
    /\ calls' = <<>>
    /\ op' = NoOp
    /\ UNCHANGED disk
    /\ EngFrame

EngNext == EngStatus \/ EngCanMerge \/ EngDraw \/ EngCopy \/ EngScan

SpecEngine == EngInit /\ [][EngNext]_vars


----------------------------------------------------------------------------
(* Copies alone, with the ways a copy can fail: results are scanned, drawn *)
(* and copied in either direction, a copy may be refused or break off      *)
(* half-way, and a file may vanish after it was scanned.                   *)

CopyLeft == {Absent, File(<<65, 66>>, 1, TRUE), File(<<65, 66>>, 1, FALSE)}

CopyRight == {Absent, File(<<67>>, MaxMtime, TRUE), File(<<67, 68>>, 1, TRUE)}

\* The first path holds any pair of CopyLeft and CopyRight, the others a left
\* file alone or nothing.
CopyRest ==
    {[left |-> Absent, right |-> Absent],
     [left |-> File(<<65>>, 1, TRUE), right |-> Absent]}

CopyDisks ==
    {[s \in Sides |-> [p \in Paths |->
        IF p = 1 THEN (IF s = "left" THEN l ELSE r) ELSE rest[s]]] :
        l \in CopyLeft, r \in CopyRight, rest \in CopyRest}

CopyInit ==
    /\ disk \in CopyDisks
    /\ results = scan_directories(disk)
    /\ selected_index = 0
    /\ scroll_offset = 0
    /\ height = 0
    /\ list_height = 0
    /\ status_message = ""
    /\ copying = FALSE
    /\ workers = [w \in 1..MaxWorkers |-> Idle]
    /\ pc = "engine"
    /\ op = NoOp
    /\ fsBudget = MaxFsChanges
    /\ keys = 0
    /\ event = "init"
    /\ arg = 0
    /\ calls = <<>>
    /\ ret = ""
    /\ terminal = "shell"

\* Another process removes a file.
CopyVanish ==
    /\ fsBudget > 0
    /\ \E s \in Sides, p \in Paths :
        /\ disk[s][p].present
        /\ disk' = [disk EXCEPT ![s][p] = Absent]
    /\ fsBudget' = fsBudget - 1
    /\ event' = "write"
    /\ arg' = 0
    /\ ret' = ""
    /\ calls' = <<>>
    /\ op' = NoOp
    /\ UNCHANGED results
    /\ EngCopyFrame

\* scan_directories() during which a file vanished after is_file() and before
\* FileInfo.__init__: its record has exists = False (see ScanExists).
CopyScanRaced ==
    /\ fsBudget > 0
    /\ \E s \in Sides, p \in Paths :
        /\ disk[s][p].present
        /\ disk' = [disk EXCEPT ![s][p] = Absent]
        /\ results' = build_results(
                [t \in Sides |-> [q \in Paths |->
                    IF t = s /\ q = p THEN FileInfo(Absent) ELSE scan_get(disk, t, q)]])
    /\ fsBudget' = fsBudget - 1
    /\ event' = "scan"
    /\ arg' = 0
    /\ ret' = ""
    /\ calls' = <<>>
    /\ op' = NoOp
    /\ EngCopyFrame

CopyNext ==
    EngStatus \/ EngCopy \/ EngCopyRescan \/ EngScan \/ CopyVanish \/ CopyScanRaced

SpecCopy == CopyInit /\ [][CopyNext]_vars

----------------------------------------------------------------------------
(* FileInfo.hash alone: the records of a scan are read, through the        *)
(* property itself or through status and can_merge, while the files change. *)

\* Every path holds a left file, readable or not, and a different right file.
CacheDisks ==
    {[s \in Sides |-> [p \in Paths |->
        IF s = "left" THEN File(<<65>>, 0, r) ELSE File(<<66>>, 0, TRUE)]] : r \in BOOLEAN}

CacheInit ==
    /\ disk \in CacheDisks
    /\ results = scan_directories(disk)
    /\ selected_index = 0
    /\ scroll_offset = 0
    /\ height = 0
    /\ list_height = 0
    /\ status_message = ""
    /\ copying = FALSE
    /\ workers = [w \in 1..MaxWorkers |-> Idle]
    /\ pc = "engine"
    /\ op = NoOp
    /\ fsBudget = MaxFsChanges
    /\ keys = 0
    /\ event = "init"
    /\ arg = 0
    /\ calls = <<>>
    /\ ret = Sentinel
    /\ terminal = "shell"

\* file_info.hash for the record on the side s of the result at index i; calls
\* holds the open() the access made.
CacheHash ==
    /\ \E i \in 0..(Len(results) - 1), s \in Sides :
        LET r  == results[i + 1]
            fi == SideOf(r, s)
            f  == disk[s][r.relative_path]
        IN /\ fi.present
           /\ ret' = hash(fi, f)
           /\ results' = [results EXCEPT ![i + 1] = SetSide(r, s, hash_load(fi, f))]
           /\ calls' = IF fi.hash = HNone /\ fi.exists THEN <<"open">> ELSE <<>>
           /\ arg' = i
           /\ op' = [NoOp EXCEPT !.kind = "hash", !.side = s]
    /\ event' = "hash"
    /\ UNCHANGED <<terminal, disk, selected_index, scroll_offset, height, list_height,
                   status_message, copying, workers, pc, fsBudget, keys>>

\* Another process rewrites, creates or removes a file.
CacheWrite ==
    /\ fsBudget > 0
    /\ disk' \in fs_changes(disk, Sides \X Paths, fsBudget) \ {disk}
    /\ fsBudget' = fsBudget - 1
    /\ event' = "write"
    /\ arg' = 0
    /\ calls' = <<>>
    /\ op' = NoOp
    /\ UNCHANGED <<terminal, results, ret, selected_index, scroll_offset, height, list_height,
                   status_message, copying, workers, pc, keys>>

\* result.status, which reads both digests of a pair it cannot tell apart by
\* size and time.
CacheStatus ==
    /\ \E i \in 0..(Len(results) - 1) :
        /\ results' = [results EXCEPT ![i + 1] = touched(results[i + 1], disk)]
        /\ arg' = i
    /\ event' = "status"
    /\ UNCHANGED <<terminal, disk, ret, calls, op, selected_index, scroll_offset, height, list_height,
                   status_message, copying, workers, pc, fsBudget, keys>>

CacheNext == CacheHash \/ CacheWrite \/ CacheStatus

SpecCache == CacheInit /\ [][CacheNext]_vars


----------------------------------------------------------------------------
(* scan_directories step by step, while other processes change the trees.  *)
(* op holds the local variables of the scan: the side being scanned, the   *)
(* entries rglob listed and has not yet yielded, the entry at hand, the     *)
(* fields FileInfo.__init__ has read so far, the two mappings, and the     *)
(* slots written since the scan began.                                      *)

NoFiles == [s \in Sides |-> [p \in Paths |-> NoInfo]]

\* scan_directories is entered.
ScanBegin ==
    [kind |-> "scan", side |-> "left", step |-> "enum", entries |-> {}, cur |-> 0,
     size |-> 0, mtime |-> 0, files |-> NoFiles, written |-> {}]

\* The scan after the entry at hand is done with: the next entry, the other
\* tree, or the loop that builds the results.
scan_advance(o) ==
    IF o.entries # {}
    THEN LET p == CHOOSE x \in o.entries : \A y \in o.entries : x <= y
         IN [o EXCEPT !.cur = p, !.entries = @ \ {p}, !.step = "is_file",
                      !.size = 0, !.mtime = 0]
    ELSE IF o.side = "left"
    THEN [o EXCEPT !.side = "right", !.step = "enum", !.cur = 0, !.size = 0, !.mtime = 0]
    ELSE [o EXCEPT !.step = "build", !.cur = 0, !.size = 0, !.mtime = 0]

\* What a path of the left tree holds before a scan: nothing, a regular file,
\* a link to a regular file, or an entry that is no file.
ScanEntries == {Absent, File(<<65>>, 1, TRUE), Link(File(<<65>>, 1, TRUE)), NonRegular}

\* The left tree holds any of ScanEntries at each path, the right tree regular
\* files at any of its paths.
ScanDisks ==
    {[s \in Sides |-> [p \in Paths |->
        IF s = "left" THEN l[p]
        ELSE IF p \in R THEN File(<<65>>, 1, TRUE) ELSE Absent]] :
        l \in [Paths -> ScanEntries], R \in SUBSET Paths}

ScanInit ==
    /\ disk \in ScanDisks
    /\ results = <<>>
    /\ selected_index = 0
    /\ scroll_offset = 0
    /\ height = 0
    /\ list_height = 0
    /\ status_message = ""
    /\ copying = FALSE
    /\ workers = [w \in 1..MaxWorkers |-> Idle]
    /\ pc = "scan"
    /\ op = ScanBegin
    /\ fsBudget = MaxFsChanges
    /\ keys = 0
    /\ event = "init"
    /\ arg = 0
    /\ calls = <<>>
    /\ ret = ""
    /\ terminal = "shell"

ScanFrame ==
    UNCHANGED <<terminal, selected_index, scroll_offset, height, list_height, status_message,
                copying, workers, pc, keys, arg, calls, ret>>

\* directory.rglob('*'): the entries of the tree are listed.
ScanEnumerate ==
    /\ op.kind = "scan" /\ op.step = "enum"
    /\ op' = scan_advance([op EXCEPT !.entries = {p \in Paths : disk[op.side][p].kind # "none"}])
    /\ event' = "enum"
    /\ UNCHANGED <<disk, results, fsBudget>>
    /\ ScanFrame

\* file_path.is_file(): an entry that is gone is passed over.
ScanIsFile ==
    /\ op.kind = "scan" /\ op.step = "is_file"
    /\ op' = IF disk[op.side][op.cur].present
             THEN [op EXCEPT !.step = "exists_size"]
             ELSE scan_advance(op)
    /\ event' = "is_file"
    /\ UNCHANGED <<disk, results, fsBudget>>
    /\ ScanFrame

\* FileInfo.__init__: the three path.exists() calls.  The last one ends the
\* constructor, and the record is stored under its key.
ScanExists ==
    /\ op.kind = "scan" /\ op.step \in {"exists_size", "exists_mtime", "exists"}
    /\ LET e == disk[op.side][op.cur].present
       IN op' = CASE op.step = "exists_size" ->
                        IF e THEN [op EXCEPT !.step = "stat_size"]
                        ELSE [op EXCEPT !.size = 0, !.step = "exists_mtime"]
                  [] op.step = "exists_mtime" ->
                        IF e THEN [op EXCEPT !.step = "stat_mtime"]
                        ELSE [op EXCEPT !.mtime = 0, !.step = "exists"]
                  [] op.step = "exists" ->
                        scan_advance([op EXCEPT !.files[op.side][op.cur] =
                            [present |-> TRUE, exists |-> e, size |-> op.size,
                             mtime |-> op.mtime, hash |-> HNone]])
    /\ event' = "exists"
    /\ UNCHANGED <<disk, results, fsBudget>>
    /\ ScanFrame

\* FileInfo.__init__: the two path.stat() calls.  A file that is gone raises
\* FileNotFoundError, which _scan_directory catches: the entry gets no key.
ScanStat ==
    /\ op.kind = "scan" /\ op.step \in {"stat_size", "stat_mtime"}
    /\ LET f == disk[op.side][op.cur]
       IN op' = IF ~f.present THEN scan_advance(op)
                ELSE IF op.step = "stat_size"
                THEN [op EXCEPT !.size = Len(f.data), !.step = "exists_mtime"]
                ELSE [op EXCEPT !.mtime = f.mtime, !.step = "exists"]
    /\ event' = "stat"
    /\ UNCHANGED <<disk, results, fsBudget>>
    /\ ScanFrame

\* scan_directories: the results are built from the two mappings.  The next
\* scan may begin.
ScanBuild ==
    /\ op.kind = "scan" /\ op.step = "build"
    /\ results' = build_results(op.files)
    /\ op' = [op EXCEPT !.step = "built"]
    /\ event' = "scan"
    /\ UNCHANGED <<disk, fsBudget>>
    /\ ScanFrame

ScanAgain ==
    /\ op.kind = "scan" /\ op.step = "built"
    /\ op' = ScanBegin
    /\ event' = "rescan"
    /\ UNCHANGED <<disk, results, fsBudget>>
    /\ ScanFrame

\* Another process rewrites, creates or removes a file.
ScanWrite ==
    /\ op.kind = "scan" /\ op.step # "built"
    /\ fsBudget > 0
    /\ \E sp \in Sides \X Paths, f \in FileValues \cup {Absent} :
        /\ f # disk[sp[1]][sp[2]]
        /\ disk' = [disk EXCEPT ![sp[1]][sp[2]] = f]
        /\ op' = [op EXCEPT !.written = @ \cup {sp}]
    /\ fsBudget' = fsBudget - 1
    /\ event' = "write"
    /\ UNCHANGED results
    /\ ScanFrame

ScanNext ==
    \/ ScanEnumerate
    \/ ScanIsFile
    \/ ScanExists
    \/ ScanStat
    \/ ScanBuild
    \/ ScanAgain
    \/ ScanWrite

SpecScan == ScanInit /\ [][ScanNext]_vars


----------------------------------------------------------------------------
(* status and can_merge over file contents: empty files, files at and just  *)
(* above the 70% mark of the text heuristic, files longer than the sample,  *)
(* unreadable files.  The trees change only when a file is removed.         *)

\* Ten bytes, eight of them text: tab, LF, CR, the first and the last
\* printable character, letters; 31 and 127 are no text.
EightOfTen == <<9, 10, 13, 32, 126, 65, 65, 65, 31, 127>>

\* Ten bytes, seven of them text.
SevenOfTen == <<9, 10, 13, 32, 126, 65, 65, 0, 31, 127>>

\* Text as far as the sample reaches, zero bytes from there on.
TextThenZeros == [i \in 1..(2 * SampleLen) |-> IF i <= SampleLen THEN 65 ELSE 0]

\* Zero bytes as far as the sample reaches, three times as much text after.
ZerosThenText == [i \in 1..(4 * SampleLen) |-> IF i <= SampleLen THEN 0 ELSE 65]

FilesLeft ==
    {Absent,
     File(<<>>, 1, TRUE), File(<<>>, 1, FALSE),
     File(EightOfTen, 1, TRUE), File(EightOfTen, 1, FALSE),
     File(TextThenZeros, 1, TRUE)}

FilesRight ==
    {Absent,
     File(<<>>, 1, TRUE), File(<<>>, 2, FALSE),
     File(EightOfTen, 1, TRUE), File(EightOfTen, MaxMtime, TRUE),
     File(SevenOfTen, 1, TRUE), File(SevenOfTen, 2, FALSE),
     File(TextThenZeros, 1, TRUE), File(ZerosThenText, 1, TRUE)}

\* The first path holds any pair of FilesLeft and FilesRight, the others a left
\* file alone or nothing.
FilesDisks ==
    {[s \in Sides |-> [p \in Paths |->
        IF p = 1 THEN (IF s = "left" THEN l ELSE r) ELSE rest[s]]] :
        l \in FilesLeft, r \in FilesRight, rest \in CopyRest}

FilesInit ==
    /\ disk \in FilesDisks
    /\ results = scan_directories(disk)
    /\ selected_index = 0
    /\ scroll_offset = 0
    /\ height = 0
    /\ list_height = 0
    /\ status_message = ""
    /\ copying = FALSE
    /\ workers = [w \in 1..MaxWorkers |-> Idle]
    /\ pc = "engine"
    /\ op = NoOp
    /\ fsBudget = MaxFsChanges
    /\ keys = 0
    /\ event = "init"
    /\ arg = 0
    /\ calls = <<>>
    /\ ret = ""
    /\ terminal = "shell"

FilesNext == EngStatus \/ EngCanMerge \/ EngDraw \/ EngScan \/ CopyVanish

SpecFiles == FilesInit /\ [][FilesNext]_vars

----------------------------------------------------------------------------
(* edit_file and merge_files alone, on a machine whose editor and merge     *)
(* tools are present or not and end their invocations one way or another.   *)
(* op holds the machine: tools[k], what becomes of the k-th candidate of    *)
(* merge_files (absent: shutil.which finds nothing; ok; fail; oserror);     *)
(* vim, whether the editor's name holds "vim"; editor[k], how the k-th      *)
(* invocation of the editor by edit_file ends.  A call is the program and   *)
(* the sides whose paths it is handed.                                      *)

ToolOutcomes == {"ok", "fail", "oserror"}

\* The number of invocations actually made of the planned ones: up to the first
\* that does not end well.
runs_made(planned, outcome) ==
    LET bad == {k \in 1..planned : outcome[k] # "ok"}
    IN IF bad = {} THEN planned ELSE CHOOSE k \in bad : \A j \in bad : k <= j

\* A variant of edit_file that hands the editor one file at a time, whatever
\* the editor.
edit_file_one_each(res, index, side, vim, editor) ==
    IF ~(0 <= index /\ index < Len(res)) THEN [ret |-> "False", calls |-> <<>>]
    ELSE LET fs == files_to_edit(res[index + 1], side)
         IN IF fs = {} THEN [ret |-> "False", calls |-> <<>>]
            ELSE LET plan == edit_invocations(fs, FALSE)
                     n    == runs_made(Len(plan), editor)
                 IN [ret   |-> IF editor[n] = "ok" THEN "True"
                               ELSE IF editor[n] = "fail" THEN "False" ELSE "raised",
                     calls |-> [k \in 1..n |-> <<"editor", plan[k]>>]]

\* edit_file: the value returned ("raised": an exception leaves the call) and
\* the editor invocations made.
edit_file(res, index, side, vim, editor) ==
    IF ~(0 <= index /\ index < Len(res)) THEN [ret |-> "False", calls |-> <<>>]
    ELSE LET fs == files_to_edit(res[index + 1], side)
         IN IF fs = {} THEN [ret |-> "False", calls |-> <<>>]
            ELSE LET plan == edit_invocations(fs, vim)
                     n    == runs_made(Len(plan), editor)
                 IN [ret   |-> IF editor[n] = "ok" THEN "True"
                               ELSE IF editor[n] = "fail" THEN "False" ELSE "raised",
                     calls |-> [k \in 1..n |-> <<"editor", plan[k]>>]]

\* A variant of merge_next that goes on to the next candidate after a tool
\* that succeeded.
merge_next_always(out, k) == out[k] \in {"absent", "fail", "ok"}

\* merge_files: the loop goes on after candidate k (it was not found, or its
\* invocation raised CalledProcessError or FileNotFoundError).
merge_next(out, k) == out[k] \in {"absent", "fail"}

\* merge_files: the candidates the loop reaches.
merge_reached(out) ==
    {k \in 1..Len(MergeTools) : \A j \in 1..(k - 1) : merge_next(out, j)}

\* merge_files: the value returned and the invocations made.
merge_files(res, d, index, tools, vim, editor) ==
    IF ~(0 <= index /\ index < Len(res)) THEN [ret |-> "False", calls |-> <<>>]
    ELSE IF ~can_merge(res[index + 1], d) THEN [ret |-> "False", calls |-> <<>>]
    ELSE LET reached == merge_reached(tools)
             last    == CHOOSE k \in reached : \A j \in reached : j <= k
             invoked == merge_calls([k \in 1..Len(MergeTools) |->
                                        IF k \in reached THEN tools[k] ELSE "absent"],
                                    Len(MergeTools))
             made    == [k \in 1..Len(invoked) |-> <<invoked[k], Sides>>]
         IN IF merge_next(tools, last)
            THEN LET e == edit_file(res, index, "both", vim, editor)
                 IN [ret |-> e.ret, calls |-> made \o e.calls]
            ELSE [ret   |-> IF tools[last] = "ok" THEN "True" ELSE "raised",
                  calls |-> made]

Machines ==
    [tools : [1..Len(MergeTools) -> {"absent"} \cup ToolOutcomes],
     vim : BOOLEAN, editor : [1..2 -> ToolOutcomes]]

\* The first path holds two text files of different content, the others a left
\* file alone.
ToolsDisks ==
    {[s \in Sides |-> [p \in Paths |->
        IF p = 1 THEN File(IF s = "left" THEN <<65>> ELSE <<66>>, 1, TRUE)
        ELSE IF s = "left" THEN File(<<65>>, 1, TRUE) ELSE Absent]]}

ToolsInit ==
    /\ disk \in ToolsDisks
    /\ results = scan_directories(disk)
    /\ selected_index = 0
    /\ scroll_offset = 0
    /\ height = 0
    /\ list_height = 0
    /\ status_message = ""
    /\ copying = FALSE
    /\ workers = [w \in 1..MaxWorkers |-> Idle]
    /\ pc = "engine"
    /\ \E m \in Machines :
            op = [kind |-> "none", side |-> "both", tools |-> m.tools, vim |-> m.vim,
                  editor |-> m.editor]
    /\ fsBudget = 0
    /\ keys = 0
    /\ event = "init"
    /\ arg = 0
    /\ calls = <<>>
    /\ ret = ""
    /\ terminal = "shell"

\* edit_file(i, side), for any index and side.
ToolsEdit ==
    /\ \E i \in -1..Len(results), side \in {"left", "right", "both"} :
        LET e == edit_file(results, i, side, op.vim, op.editor)
        IN /\ ret' = e.ret
           /\ calls' = e.calls
           /\ arg' = i
           /\ op' = [op EXCEPT !.kind = "edit", !.side = side]
    /\ event' = "edit_file"
    /\ UNCHANGED <<disk, results>>
    /\ EngFrame

\* merge_files(i), for any index.
ToolsMerge ==
    /\ \E i \in -1..Len(results) :
        LET m == merge_files(results, disk, i, op.tools, op.vim, op.editor)
        IN /\ ret' = m.ret
           /\ calls' = m.calls
           /\ arg' = i
           /\ results' = IF 0 <= i /\ i < Len(results)
                          THEN [results EXCEPT ![i + 1] = can_merge_touched(results[i + 1], disk)]
                          ELSE results
           /\ op' = [op EXCEPT !.kind = "merge", !.side = "both"]
    /\ event' = "merge_files"
    /\ UNCHANGED disk
    /\ EngFrame

ToolsNext == ToolsEdit \/ ToolsMerge

SpecTools == ToolsInit /\ [][ToolsNext]_vars

----------------------------------------------------------------------------
(* Properties *)

MutatingCommands == {"copy_lr", "copy_rl", "edit", "merge", "manual_merge"}

\* The copy threads that are inside comparer.copy_file_...().
CopyingWorkers == {w \in 1..MaxWorkers : workers[w].pc = "copy"}

\* The copy threads that have not yet run self.copying = False.
UnfinishedWorkers == {w \in 1..MaxWorkers : workers[w].pc \in {"start", "copy", "clear"}}

\* The main thread waits for an editor or merge tool it started.
MainOperation == pc \in {"edit", "merge", "mmerge"}

\* The step is the main thread handling the key whose command is cmd.
KeyStep(cmd) == keys' = keys + 1 /\ event' = cmd

\* C1: at most one mutating operation (a copy in a worker thread, an edit, a
\* merge, a manual merge) executes at any time.
AtMostOneMutatingOperation ==
    Cardinality(CopyingWorkers) + (IF MainOperation THEN 1 ELSE 0) <= 1

\* C2: from the dispatch of a copy thread until that thread clears it, copying
\* (busy) is true.
BusyWhileWorkerUnfinished == UnfinishedWorkers # {} => copying

\* C3: a copy, edit, merge or manual-merge command issued while copying (busy) is
\* true changes nothing and invokes nothing: no thread is started, no external
\* process is run, the trees are as they were.
BusyCommandIsNoOp ==
    [][(copying /\ \E cmd \in MutatingCommands : KeyStep(cmd))
        => /\ UNCHANGED <<results, selected_index, scroll_offset, copying,
                          status_message, workers, disk, op>>
           /\ calls' = <<>>
           /\ pc' = "draw"]_vars

\* C3, its case: an edit command was handled on a non-empty result list and
\* neither started the editor nor set a message, as copying was true.
BusyEditRejected ==
    /\ event = "edit"
    /\ pc = "draw"
    /\ results # <<>>
    /\ selected_index < Len(results)
    /\ files_to_edit(results[selected_index + 1], "both") # {}
    /\ status_message = ""
    /\ copying
    /\ UnfinishedWorkers # {}

\* C4: a refresh command issued while copying (busy) is true or on an empty
\* result list changes nothing.
RefreshRejected ==
    [][((copying \/ results = <<>>) /\ KeyStep("refresh"))
        => UNCHANGED <<results, selected_index, scroll_offset, status_message>>]_vars

\* C5: the selected index is a position of the result list, or 0 when the list
\* is empty.
SelectedIndexInBounds ==
    IF results = <<>> THEN selected_index = 0
    ELSE 0 <= selected_index /\ selected_index < Len(results)

\* C6: the scroll offset is at least 0 and at most max(0, len(results) minus the
\* viewport height).
ScrollOffsetInBounds ==
    0 <= scroll_offset /\ scroll_offset <= Max(0, Len(results) - list_height)

Clamp(x, lo, hi) == IF x < lo THEN lo ELSE IF x > hi THEN hi ELSE x

\* C7: moving the selection by delta on a non-empty list sets the selected index
\* to selected index + delta clamped to 0..len-1 and clears the status message;
\* on an empty list it changes nothing (a selected index and a scroll offset of
\* 0 stay 0).
MoveSelectionClamps ==
    [][(pc = "getch" /\ event' = "move")
        => IF results = <<>>
           THEN UNCHANGED <<results, selected_index, scroll_offset, status_message>>
           ELSE /\ selected_index' = Clamp(selected_index + arg', 0, Len(results) - 1)
                /\ status_message' = ""
                /\ UNCHANGED <<results, scroll_offset>>]_vars

\* C7, its case: a move past the end of a full list stopped at the last index
\* and cleared the message.
MovedPastEnd ==
    /\ event = "move"
    /\ Len(results) = NPaths
    /\ arg > Len(results)
    /\ selected_index = Len(results) - 1
    /\ status_message = ""

\* C8: after the scroll adjustment of a render on a non-empty list the selected
\* row is inside the viewport.
SelectionVisibleAfterDraw ==
    (event = "draw" /\ results # <<>>)
        => /\ scroll_offset <= selected_index
           /\ selected_index < scroll_offset + list_height

\* C8, its case: a render scrolled down to bring the last row into view.
ScrolledToSelection ==
    /\ event = "draw"
    /\ Len(results) = NPaths
    /\ selected_index = Len(results) - 1
    /\ scroll_offset > 0
    /\ scroll_offset = selected_index - list_height + 1

Gone(fi) == ~fi.present \/ ~fi.exists

\* The classification as specified, first match wins; the content hashes are
\* those the two records hold.
Classify(r) ==
    CASE Gone(r.left_file) -> "ONLY_RIGHT"
      [] ~Gone(r.left_file) /\ Gone(r.right_file) -> "ONLY_LEFT"
      [] OTHER ->
            IF r.left_file.size # r.right_file.size THEN "DIFFERENT_SIZE"
            ELSE IF r.left_file.mtime - r.right_file.mtime > 1
                    \/ r.right_file.mtime - r.left_file.mtime > 1 THEN "DIFFERENT_TIME"
            ELSE IF r.left_file.hash # r.right_file.hash THEN "DIFFERENT_CONTENT"
            ELSE "IDENTICAL"

\* C9: status is ONLY_RIGHT, ONLY_LEFT, DIFFERENT_SIZE, DIFFERENT_TIME (more than
\* one second apart), DIFFERENT_CONTENT or IDENTICAL, the first that applies in
\* this order.
StatusFirstMatchWins ==
    event = "status" => ret = Classify(results[arg + 1])

\* C9, its case: sizes differ, and so do the times (by more than a second) and
\* the contents; the status is DIFFERENT_SIZE.
SizeReportedFirst ==
    /\ event = "status"
    /\ ret = "DIFFERENT_SIZE"
    /\ LET r == results[arg + 1]
       IN /\ Abs(r.left_file.mtime - r.right_file.mtime) > 1
          /\ disk["left"][r.relative_path].data # disk["right"][r.relative_path].data

\* Both sides exist, with equal sizes and times at most a second apart.
Paired(r) ==
    /\ ~Gone(r.left_file) /\ ~Gone(r.right_file)
    /\ r.left_file.size = r.right_file.size
    /\ Abs(r.left_file.mtime - r.right_file.mtime) <= 1

\* C10: a record's content hash is computed only while the record is paired with
\* an existing counterpart of equal size and a time at most a second apart.
HashedOnlyWhenPaired ==
    [][\A i \in 1..Len(results) : \A s \in Sides :
        (/\ i <= Len(results')
         /\ SideOf(results[i], s).hash = HNone
         /\ SideOf(results'[i], s).hash # HNone)
            => Paired(results[i])]_vars

\* C10, its case: a status evaluation hashed both records of a result.
HashedForContent ==
    /\ event = "status"
    /\ ret = "DIFFERENT_CONTENT"
    /\ results[arg + 1].left_file.hash # HNone
    /\ results[arg + 1].right_file.hash # HNone


\* The digest a record returns: self._hash or "".
Returned(fi) == IF fi.hash = HNone THEN Sentinel ELSE fi.hash

\* C11: a record's hash is unset until its first access; once computed, the
\* empty string of a failed read included, every later access returns the same
\* value and opens no file, whatever became of the file.
HashCachedForLife ==
    /\ [](event = "init" =>
            \A i \in 1..Len(results) : \A s \in Sides : SideOf(results[i], s).hash = HNone)
    /\ [][\A i \in 1..Len(results) : \A s \in Sides :
            LET old == SideOf(results[i], s)
                new == SideOf(results'[i], s)
            IN /\ old.hash # HNone => new.hash = old.hash
               /\ event' = "write" => new.hash = old.hash
               /\ (event' = "hash" /\ arg' = i - 1 /\ op'.side = s)
                    => /\ ret' = Returned(new)
                       /\ old.hash # HNone => (ret' = old.hash /\ calls' = <<>>)]_vars

\* C11, its case: an access returned the digest cached before the file was
\* rewritten or removed.
StaleHashReturned ==
    /\ event = "hash"
    /\ LET r  == results[arg + 1]
           fi == SideOf(r, op.side)
           f  == disk[op.side][r.relative_path]
       IN /\ fi.hash \notin {HNone, Sentinel}
          /\ ret = fi.hash
          /\ calls = <<>>
          /\ ~(f.present /\ f.readable /\ Md5(f.data) = ret)


\* The keys of a mapping _scan_directory returned.
Keys(files, side) == {p \in Paths : files[side][p].present}

\* C12: after a scan the results are strictly ascending by relative path, their
\* paths are exactly the union of the keys of the two mappings, and each side of
\* a result is that mapping's record when the mapping has the key, None when not.
ScanResultsAreSortedUnion ==
    event = "scan" =>
        /\ \A i \in 1..(Len(results) - 1) :
                results[i].relative_path < results[i + 1].relative_path
        /\ {results[i].relative_path : i \in 1..Len(results)}
                = Keys(op.files, "left") \cup Keys(op.files, "right")
        /\ \A i \in 1..Len(results) : \A s \in Sides :
                LET p == results[i].relative_path
                IN /\ SideOf(results[i], s).present <=> p \in Keys(op.files, s)
                   /\ SideOf(results[i], s) = op.files[s][p]

\* C12, its case: a scan found one path in the left tree only and a later one
\* in the right tree only.
ScannedBothKinds ==
    /\ event = "scan"
    /\ \E i, j \in 1..Len(results) :
        /\ i < j
        /\ results[i].left_file.present /\ ~results[i].right_file.present
        /\ results[j].right_file.present /\ ~results[j].left_file.present


\* C13: every result has a side that is present with exists = True, also when
\* files are deleted while the trees are scanned.
EveryResultHasExistingSide ==
    \A i \in 1..Len(results) :
        \/ results[i].left_file.present /\ results[i].left_file.exists
        \/ results[i].right_file.present /\ results[i].right_file.exists

\* Every file of the tree that no process wrote during the scan has its key.
UntouchedFilesScanned ==
    \A s \in Sides : \A p \in Paths :
        (disk[s][p].present /\ <<s, p>> \notin op.written) => p \in Keys(op.files, s)

\* C14: in the mappings a scan returned, a file that was gone when it was
\* stat'd has no key, and every file no process touched has one.
ScanOmitsVanishedFiles ==
    event = "scan" =>
        /\ \A s \in Sides : \A p \in Keys(op.files, s) : op.files[s][p].exists
        /\ UntouchedFilesScanned


\* C15: a copy whose index is out of range, or whose source-side record is None
\* or has exists = False, returns False, makes no file system call and leaves
\* the trees and the results as they were.
CopyWithoutSourceDoesNothing ==
    [][(/\ event' = "copy"
        /\ \/ arg' < 0
           \/ arg' >= Len(results)
           \/ Gone(SideOf(results[arg' + 1], op'.side)))
        => /\ ret' = "False"
           /\ calls' = <<>>
           /\ disk' = disk
           /\ results' = results]_vars

\* C15, its case: a copy was asked from a record whose file had vanished during
\* the scan (exists = False); it returned False and called nothing.
CopyFromVanishedRefused ==
    /\ event = "copy"
    /\ ret = "False"
    /\ calls = <<>>
    /\ 0 <= arg /\ arg < Len(results)
    /\ SideOf(results[arg + 1], op.side).present
    /\ ~SideOf(results[arg + 1], op.side).exists

\* A record as a fresh stat of the file f gives it, its hash not computed.
FreshRecord(f) ==
    [present |-> TRUE, exists |-> TRUE, size |-> Len(f.data), mtime |-> f.mtime,
     hash |-> HNone]

\* C16: a copy thread's successful copy replaces the destination-side record of
\* the selected result by a fresh record with no hash; the source-side record,
\* the other results, the list's order and length, the selected index and the
\* scroll offset are unchanged.
CopyPatchesDestinationOnly ==
    [][\A w \in 1..MaxWorkers :
        (workers[w].pc = "copy" /\ workers'[w].pc = "clear" /\ workers'[w].ok)
        => LET i   == selected_index + 1
               src == workers[w].src
               dst == Other(src)
           IN /\ Len(results') = Len(results)
              /\ \A k \in 1..Len(results) : k # i => results'[k] = results[k]
              /\ results'[i].relative_path = results[i].relative_path
              /\ SideOf(results'[i], src) = SideOf(results[i], src)
              /\ SideOf(results'[i], dst)
                    = FreshRecord(disk'[dst][results[i].relative_path])
              /\ UNCHANGED <<selected_index, scroll_offset>>]_vars

\* C16, its case: a copy thread has copied a file whose record was hashed; the
\* source record kept its digest and the new destination record has none.
CopiedOverHashedPair ==
    \E w \in 1..MaxWorkers :
        /\ workers[w].pc = "clear" /\ workers[w].ok
        /\ selected_index < Len(results)
        /\ Len(results) = NPaths
        /\ LET r == results[selected_index + 1]
           IN /\ SideOf(r, workers[w].src).hash \notin {HNone, Sentinel}
              /\ SideOf(r, Other(workers[w].src)) =
                    FreshRecord(disk[Other(workers[w].src)][r.relative_path])
              /\ disk["left"][r.relative_path] = disk["right"][r.relative_path]

\* C17: a copy that fails returns False and leaves every result, the
\* destination-side record included, as it was; no exception leaves the call.
FailedCopyLeavesResults ==
    [][(event' = "copy" /\ ret' = "False") => (results' = results /\ pc' = pc)]_vars

\* C17, its case: a copy broke off and left a partial file at the destination,
\* and the result still has no record for that side.
PartialFileNotAdopted ==
    /\ event = "copy"
    /\ ret = "False"
    /\ calls = <<"mkdir", "copy2">>
    /\ LET r == results[arg + 1]
           f == disk[Other(op.side)][r.relative_path]
       IN /\ f.present
          /\ f = partial_file(disk[op.side][r.relative_path])
          /\ ~SideOf(r, Other(op.side)).present

\* C18: a successful copy, in either direction, followed by a rescan gives the
\* path copied the status IDENTICAL.
CopyThenRescanIdentical ==
    (event = "copy_rescan" /\ ret # "False") => ret = "IDENTICAL"

\* C18, its case: a copy from right to left and a rescan gave IDENTICAL.
CopiedLeftwardIdentical ==
    /\ event = "copy_rescan"
    /\ ret = "IDENTICAL"
    /\ op.side = "right"
    /\ calls = <<"mkdir", "copy2", "FileInfo">>
    /\ disk["left"][op.path] = disk["right"][op.path]


ToolEnds == {"edit_end", "merge_end", "manual_merge_end"}

\* C19: after a failure of a copy, of a hash read or of an external tool the
\* session goes on: once an editor or merge tool has ended, however it ended,
\* the main thread is back in its loop, about to draw the screen.
ToolFailureKeepsSession == event \in ToolEnds => pc = "draw"

\* C20: whenever copying (busy) is true it is false again later, unless the
\* user quits: no accepted copy, edit, merge or manual merge leaves it true
\* forever.
BusyEventuallyCleared == copying ~> (~copying \/ pc = "exit")


\* The list a scan of the trees d builds: the paths with a file in either tree,
\* ascending, each side a record just made from its file, or None.
IsFullScan(res, d) ==
    /\ \A i \in 1..(Len(res) - 1) : res[i].relative_path < res[i + 1].relative_path
    /\ {res[i].relative_path : i \in 1..Len(res)}
            = {p \in Paths : d["left"][p].present \/ d["right"][p].present}
    /\ \A i \in 1..Len(res) : \A s \in Sides :
            LET f == d[s][res[i].relative_path]
            IN SideOf(res[i], s) = IF f.present THEN FreshRecord(f) ELSE NoInfo

\* C21: a refresh replaces the results by the outcome of a full rescan of both
\* trees and leaves the selected index and the scroll offset at 0, whatever they
\* were.
RefreshRescansAndResets ==
    [][KeyStep("refresh")
        => /\ IsFullScan(results', disk)
           /\ selected_index' = 0
           /\ scroll_offset' = 0]_vars

\* C21, its case: a refresh took the selection from a later row back to the first
\* and rebuilt a list whose records had been hashed.
RefreshedFromLaterRow ==
    /\ event = "refresh"
    /\ arg < 0
    /\ selected_index = 0
    /\ scroll_offset = 0
    /\ Len(results) = NPaths
    /\ \A i \in 1..Len(results) : results[i].left_file.hash = HNone

\* open() of the file succeeds.
Openable(f) == f.present /\ f.readable

\* The first 512 bytes are empty, or fewer than 30% of them lie outside
\* 0x20..0x7E and {tab, LF, CR}.
LooksLikeText(data) ==
    LET n   == IF Len(data) < 512 THEN Len(data) ELSE 512
        bad == {i \in 1..n : data[i] \notin (32..126) \cup {9, 10, 13}}
    IN n = 0 \/ 10 * Cardinality(bad) < 3 * n

\* C22: can_merge is true if and only if both sides are present and exist, the
\* status is not IDENTICAL, both files can be opened, and the first 512 bytes of
\* each are empty or more than 70% text; exactly 70% is not text.
CanMergeIffTextPair ==
    event = "can_merge" =>
        LET r  == results[arg + 1]
            lf == disk["left"][r.relative_path]
            rf == disk["right"][r.relative_path]
        IN (ret = "True") <=>
                /\ ~Gone(r.left_file) /\ ~Gone(r.right_file)
                /\ Classify(r) # "IDENTICAL"
                /\ Openable(lf) /\ Openable(rf)
                /\ LooksLikeText(lf.data) /\ LooksLikeText(rf.data)

\* C22, its case: two readable files of different content, one of them with
\* exactly 70% of text, cannot be merged.
SeventyPercentIsNotText ==
    /\ event = "can_merge"
    /\ ret = "False"
    /\ LET r == results[arg + 1]
       IN /\ ~Gone(r.left_file) /\ ~Gone(r.right_file)
          /\ Classify(r) = "DIFFERENT_CONTENT"
          /\ disk["left"][r.relative_path] = File(EightOfTen, 1, TRUE)
          /\ disk["right"][r.relative_path] = File(SevenOfTen, 1, TRUE)

\* C23: for edit, merge and manual merge the terminal is released before the
\* external process is started and is back in visual mode on every way out
\* (success, failure, missing binary, unexpected error) before the next key is
\* handled: it is never released when the loop draws or reads a key, and never
\* held while the main thread waits for the external process.
TerminalReleasedOnlyForTool ==
    /\ MainOperation => terminal = "shell"
    /\ pc \in {"draw", "getch"} => terminal = "curses"
    /\ event \in ToolEnds => terminal = "curses"

\* C23, its case: an editor or merge tool has failed, and the loop is about to
\* draw in visual mode.
ResumedAfterFailedTool ==
    /\ event \in ToolEnds
    /\ status_message \in {"Editor failed or was cancelled", "Merge failed or was cancelled",
                            "Failed to open merge file in editor"}
    /\ pc = "draw"
    /\ terminal = "curses"

\* The two lists show the same rows: the same paths in the same order, each
\* with the same status and the same can_merge.
SameRows(before, after, d) ==
    /\ Len(after) = Len(before)
    /\ \A i \in 1..Len(before) :
            /\ after[i].relative_path = before[i].relative_path
            /\ status(after[i], d) = status(before[i], d)
            /\ can_merge(after[i], d) = can_merge(before[i], d)

ScanKeysAreRegularFiles ==
    event = "scan" =>
        \A s \in Sides : \A p \in Paths :
            <<s, p>> \notin op.written
                => (p \in Keys(op.files, s) <=> disk[s][p].kind = "file")

\* The place of a merge tool in the order of preference.
Rank(name) == CHOOSE k \in 1..Len(MergeTools) : MergeTools[k] = name

IsEditorCall(c) == c[1] = "editor"

IsToolCall(c) == c[1] # "editor"

Existing(r, side) == {s \in Sides : (side = "both" \/ side = s) /\ ~Gone(SideOf(r, s))}

\* The invocations edit makes when none fails.
Planned(fs, vim) ==
    IF fs = Sides /\ ~vim
    THEN <<<<"editor", {"left"}>>, <<"editor", {"right"}>>>>
    ELSE <<<<"editor", fs>>>>

\* C27: edit_file hands the editor exactly the existing files among the sides
\* asked for: none existing (or an index out of range) returns False with no
\* invocation; one existing gives one invocation; both existing give one
\* invocation with both paths when the editor splits its view, else one per
\* file, left then right, as long as none fails; the result is True only if
\* every invocation was made and ended with status zero.
EditHandsExistingFiles ==
    event = "edit_file" =>
        IF arg < 0 \/ arg >= Len(results) \/ Existing(results[IF arg < 0 \/ arg >= Len(results)
                                                               THEN 1 ELSE arg + 1], op.side) = {}
        THEN ret = "False" /\ calls = <<>>
        ELSE LET plan == Planned(Existing(results[arg + 1], op.side), op.vim)
             IN /\ 1 <= Len(calls) /\ Len(calls) <= Len(plan)
                /\ \A k \in 1..Len(calls) : calls[k] = plan[k]
                /\ \A k \in 1..(Len(calls) - 1) : op.editor[k] = "ok"
                /\ Len(calls) < Len(plan) => op.editor[Len(calls)] # "ok"
                /\ ret = "True" <=>
                        (Len(calls) = Len(plan) /\ \A k \in 1..Len(plan) : op.editor[k] = "ok")
                /\ ret = "False" <=> op.editor[Len(calls)] = "fail"

\* C27, its case: both files exist and the editor does not split its view; it
\* was run on the left file, then on the right file, and the result is True.
EditedOneAfterTheOther ==
    /\ event = "edit_file"
    /\ op.side = "both"
    /\ ~op.vim
    /\ ret = "True"
    /\ calls = <<<<"editor", {"left"}>>, <<"editor", {"right"}>>>>

\* C28: a record whose file cannot be read hashes to the empty sentinel, and
\* no readable file does, an empty one included; with equal sizes and times
\* within the tolerance two unreadable files are IDENTICAL, an unreadable file
\* and a readable one are DIFFERENT_CONTENT.
UnreadableEqualsOnlyUnreadable ==
    (event = "status" /\ Paired(results[arg + 1]))
    => LET r == results[arg + 1]
           l == r.left_file.hash
           h == r.right_file.hash
       IN /\ \A s \in Sides :
                LET f == disk[s][r.relative_path]
                IN /\ SideOf(r, s).hash = Sentinel => ~Openable(f)
                   /\ (~Openable(f) /\ fsBudget = MaxFsChanges) => SideOf(r, s).hash = Sentinel
          /\ (l = Sentinel /\ h = Sentinel) => ret = "IDENTICAL"
          /\ (l = Sentinel) # (h = Sentinel) => ret = "DIFFERENT_CONTENT"

\* C28, its case: an unreadable file and a readable empty file of the same
\* size and time are DIFFERENT_CONTENT.
UnreadableAgainstEmpty ==
    /\ event = "status"
    /\ ret = "DIFFERENT_CONTENT"
    /\ LET r == results[arg + 1]
       IN /\ r.left_file.hash = Sentinel
          /\ ~disk["left"][r.relative_path].readable
          /\ disk["right"][r.relative_path] = File(<<>>, 1, TRUE)
          /\ r.right_file.hash = Md5(<<>>)

\* C29: after a successful copy the result patched in place has the status a
\* full rescan would report for its path, when files are changed through the
\* program's own copy, edit and merge commands only.  It is stated of the copies
\* that run alone, right after their key was handled: no editor or merge tool
\* is running and no other copy thread is unfinished.
PatchedStatusIsRescanStatus ==
    [][\A w \in 1..MaxWorkers :
        (/\ workers[w].pc = "copy" /\ workers'[w].pc = "clear" /\ workers'[w].ok
         /\ event \in {"copy_lr", "copy_rl"}
         /\ ~MainOperation
         /\ UnfinishedWorkers = {w})
        => LET patched   == results'[selected_index + 1]
               rescanned == scan_directories(disk')
           IN \E j \in 1..Len(rescanned) :
                /\ rescanned[j].relative_path = patched.relative_path
                /\ status(rescanned[j], disk') = status(patched, disk')]_vars

\* The relative paths of a result list, in order.
PathsOf(res) == [i \in 1..Len(res) |-> res[i].relative_path]

\* C30: a successful copy followed by a rescan, from a list that names exactly
\* the files of the two trees (nothing else changed them since the scan), leaves
\* the sequence of relative paths unchanged: the index of the copied file holds
\* the same relative path after the rescan.
CopyRescanKeepsPaths ==
    [][(/\ event' = "copy_rescan"
        /\ ret' # "False"
        /\ PathsOf(results) = PathsOf(scan_directories(disk)))
       => /\ PathsOf(results') = PathsOf(results)
          /\ results'[arg' + 1].relative_path = op'.path]_vars

\* C30, its case: the last of several rows, a file of the left tree alone, was
\* copied to the right tree and the trees were scanned again.
CopiedLastRowRescanned ==
    /\ event = "copy_rescan"
    /\ ret # "False"
    /\ op.side = "left"
    /\ Len(results) = NPaths
    /\ arg = NPaths - 1
    /\ op.path = NPaths
    /\ disk["right"][op.path] = File(<<65>>, 1, TRUE)

\* C31: the file a copy command copies is the one that was selected when its
\* key was handled: a copy thread that copies successfully copies and patches
\* the row of the relative path selected at that moment, also when the
\* selection moved or the list was rescanned before the thread ran.
CopiedIsSelectedAtKeyPress ==
    [][\A w \in 1..MaxWorkers :
        (workers[w].pc = "copy" /\ workers'[w].pc = "clear" /\ workers'[w].ok)
        => /\ selected_index < Len(results)
           /\ results[selected_index + 1].relative_path = workers[w].path]_vars

\* C32: on a non-empty list a move by d followed by the move by -d leaves the
\* selected index where it was whenever the first move was not clamped (the
\* index plus d lies within the list); for d = 1 this is every first move that
\* changes the selected index.
MoveThereAndBackRestores ==
    [][(/\ event' = "move_back"
        /\ results # <<>>
        /\ 0 <= selected_index + arg'
        /\ selected_index + arg' <= Len(results) - 1)
       => selected_index' = selected_index]_vars

\* C32, its case: on a full list the selection went down from the first row
\* and came back to it.
MovedDownAndBack ==
    /\ event = "move_back"
    /\ arg = 1
    /\ Len(results) = NPaths
    /\ selected_index = 0
    /\ status_message = ""
    /\ pc = "draw"

====
